---- MODULE Spec2Model ----
(***************************************************************************)
(* A model of the ray tracer foundation layer: the Color channel           *)
(* extraction, the Canvas (new / write_pixel / pixel_at / to_ppm) and the  *)
(* Matrix operations (transpose, determinant, submatrix, minor, cofactor,  *)
(* multiply_tuple, multiply_matrix, equals), and the loop of main that     *)
(* plots the positions of a projectile.                                    *)
(*                                                                         *)
(* Numbers.  Matrix and tuple entries are integer-valued f64: sums and     *)
(* products of small integers are exact in f64, so Int arithmetic is the   *)
(* code's arithmetic.  A color channel is held as its numerator over 4     *)
(* (2 stands for 0.5, 6 for 1.5, -2 for -0.5); quarters and their product  *)
(* with 255.0 are exact in f64 as well.                                    *)
(*                                                                         *)
(* Indices are 0-based as in the source: a Vec is a function on 0..n-1.    *)
(* Text is a sequence of one-character strings.                            *)
(***************************************************************************)
EXTENDS Integers, Sequences, FiniteSets

VARIABLES
    width,      \* Canvas.width
    height,     \* Canvas.height
    pixels,     \* Canvas.pixels: pixels[y][x]
    written,    \* history: <<x, y>> -> <<>> (never written) or <<color>> (last successful write)
    nwrites,    \* number of write_pixel calls made so far
    mat,        \* the Matrix the operations are applied to
    proj,       \* the Projectile p of main
    last        \* the most recent call and what it returned, or that it panicked

vars == <<width, height, pixels, written, nwrites, mat, proj, last>>

\* ------------------------------------------------------------------------
\* Bounds of the model
\* ------------------------------------------------------------------------
MaxW == 2           \* widest canvas of the write_pixel / pixel_at specification
MaxH == 2           \* tallest canvas of the write_pixel / pixel_at specification
MaxWrites == 2      \* write_pixel calls per behaviour there
MaxPpmW == 7        \* widest canvas of the to_ppm specification
MaxPpmH == 2        \* tallest canvas of the to_ppm specification
MaxPpmWrites == 1   \* write_pixel calls on top of the fill there
MaxRows == 5        \* most rows of a matrix of the matrix specification
MaxCols == 4        \* most columns of a matrix of the matrix specification

\* ------------------------------------------------------------------------
\* Generic helpers
\* ------------------------------------------------------------------------
Ok(v) == [ok |-> TRUE, val |-> v]
Panic == [ok |-> FALSE]

min(a, b) == IF a <= b THEN a ELSE b
max(a, b) == IF a >= b THEN a ELSE b

\* f64::round on a value given in quarters: nearest integer, ties away from zero.
round(q) == IF q >= 0 THEN (q + 2) \div 4 ELSE -((2 - q) \div 4)

\* `f64 as usize`: a saturating cast, negative values become 0.
as_usize(i) == IF i < 0 THEN 0 ELSE i

\* usize::to_string: the decimal digits, most significant first.
DigitChar(d) == <<"0", "1", "2", "3", "4", "5", "6", "7", "8", "9">>[d + 1]

RECURSIVE to_string(_)
to_string(n) ==
    IF n < 10 THEN <<DigitChar(n)>>
    ELSE to_string(n \div 10) \o <<DigitChar(n % 10)>>

\* ------------------------------------------------------------------------
\* Color
\* ------------------------------------------------------------------------
Color(r, g, b) == [r |-> r, g |-> g, b |-> b]

black == Color(0, 0, 0)

\* One channel of ppm_str: min(max((v * 255.0).round() as usize, 0), 255).
ppm_channel_trunc(q) == min(max(as_usize((q * 255) \div 4), 0), 255)
ppm_channel(q) == min(max(as_usize(round(q * 255)), 0), 255)

ppm_str(color) ==
    <<ppm_channel(color.r), ppm_channel(color.g), ppm_channel(color.b)>>

\* The colors the driver writes: (1.5, 0.5, -0.5), whose channels are the
\* three of tests::ppm_construction, (0.25, 0.75, 1.0) and white.  They
\* serialize to tokens of one, two and three digits.
ColorInputs == { Color(6, 2, -2), Color(1, 3, 4), Color(4, 4, 4) }

\* ------------------------------------------------------------------------
\* Canvas
\* ------------------------------------------------------------------------
canvas_new(w, h) ==
    [width |-> w, height |-> h,
     pixels |-> [y \in 0..(h - 1) |-> [x \in 0..(w - 1) |-> black]]]

Canvas == [width |-> width, height |-> height, pixels |-> pixels]

\* write_pixel: the bounds check, then pixels[y][x] = color.
write_pixel_row(c, x, y, color) ==
    IF x >= c.width \/ y >= c.height THEN Panic
    ELSE Ok([c EXCEPT !.pixels[y] = [xx \in 0..(c.width - 1) |-> color]])
write_pixel_no_y_check(c, x, y, color) ==
    IF x >= c.width THEN Panic
    ELSE Ok([c EXCEPT !.pixels[y][x] = color])
write_pixel(c, x, y, color) ==
    IF x >= c.width \/ y >= c.height THEN Panic
    ELSE Ok([c EXCEPT !.pixels[y][x] = color])

\* pixel_at: self.pixels[y][x]; indexing a Vec out of range panics.
pixel_at(c, x, y) ==
    IF y \in DOMAIN c.pixels /\ x \in DOMAIN c.pixels[y] THEN Ok(c.pixels[y][x])
    ELSE Panic

\* One pass of the innermost loop of to_ppm: st = [result, line], val a channel.
ppm_val_nowrap(st, val) ==
    LET s == to_string(val) IN
    [st EXCEPT !.line = IF Len(st.line) > 0 THEN st.line \o <<" ">> \o s ELSE s]
ppm_val_budget(st, val) ==
    LET s == to_string(val) IN
    IF Len(st.line) + Len(s) <= 70
    THEN [st EXCEPT !.line = IF Len(st.line) > 0 THEN st.line \o <<" ">> \o s ELSE s]
    ELSE [result |-> st.result \o st.line \o <<"\n">>, line |-> s]
ppm_val(st, val) ==
    LET s == to_string(val) IN
    IF Len(st.line) + Len(s) + 1 <= 70
    THEN [st EXCEPT !.line = IF Len(st.line) > 0 THEN st.line \o <<" ">> \o s ELSE s]
    ELSE [result |-> st.result \o st.line \o <<"\n">>, line |-> s]

\* `for val in vals`
ppm_pixel(st, pixel) ==
    LET vals == ppm_str(pixel) IN
    ppm_val(ppm_val(ppm_val(st, vals[1]), vals[2]), vals[3])

\* TLC evaluates the argument of an operator only when it is used; Now(st)
\* is TRUE and has the loop state computed before the next pass starts.
Now(st) == Len(st.line) >= 0

\* `for pixel in row`, from pixel x on
RECURSIVE ppm_pixels(_, _, _)
ppm_pixels(st, row, x) ==
    IF x \in DOMAIN row /\ Now(st)
    THEN ppm_pixels(ppm_pixel(st, row[x]), row, x + 1)
    ELSE st

\* One pass of the outer loop: the row's pixels, then the flush of the line.
ppm_row_merge(st, row) ==
    ppm_pixels(st, row, 0)
ppm_row(st, row) ==
    LET done == ppm_pixels(st, row, 0) IN
    [result |-> done.result \o done.line \o <<"\n">>, line |-> <<>>]

\* `for row in &self.pixels`, from row y on
RECURSIVE ppm_rows(_, _, _)
ppm_rows(st, c, y) ==
    IF y \in DOMAIN c.pixels /\ Now(st)
    THEN ppm_rows(ppm_row(st, c.pixels[y]), c, y + 1)
    ELSE st

ppm_header(c) ==
    <<"P", "3", "\n">> \o to_string(c.width) \o <<" ">> \o to_string(c.height)
        \o <<"\n", "2", "5", "5", "\n">>

to_ppm(c) == ppm_rows([result |-> ppm_header(c), line |-> <<>>], c, 0).result

\* ------------------------------------------------------------------------
\* The canvas as a state machine
\* ------------------------------------------------------------------------
NoMatrix == [rows |-> 0, cols |-> 0, values |-> <<>>]
NoCall == [op |-> "none", ok |-> TRUE]
NoProjectile == <<>>

Coords(w, h) == (0..(w - 1)) \X (0..(h - 1))

\* Canvas::new(w, h)
InitCanvas ==
    /\ \E w \in 0..MaxW, h \in 0..MaxH :
          /\ width = w
          /\ height = h
          /\ pixels = canvas_new(w, h).pixels
          /\ written = [p \in Coords(w, h) |-> <<>>]
    /\ nwrites = 0
    /\ mat = NoMatrix
    /\ proj = NoProjectile
    /\ last = NoCall

\* A call of write_pixel(x, y, color).  A panic ends the program.
DoWrite(x, y, color) ==
    LET r == write_pixel(Canvas, x, y, color) IN
    /\ last.ok
    /\ nwrites' = nwrites + 1
    /\ last' = [op |-> "write_pixel", ok |-> r.ok, x |-> x, y |-> y, color |-> color]
    /\ IF r.ok
       THEN /\ width' = r.val.width
            /\ height' = r.val.height
            /\ pixels' = r.val.pixels
            /\ written' = [written EXCEPT ![<<x, y>>] = <<color>>]
       ELSE UNCHANGED <<width, height, pixels, written>>
    /\ UNCHANGED <<mat, proj>>

WritePixel ==
    /\ nwrites < MaxWrites
    /\ \E x \in 0..width, y \in 0..height, color \in ColorInputs \cup {black} :
          DoWrite(x, y, color)

\* A call of pixel_at(x, y) within the canvas.
PixelAt ==
    /\ last.ok
    /\ \E x \in 0..(width - 1), y \in 0..(height - 1) :
          LET r == pixel_at(Canvas, x, y) IN
          last' = [op |-> "pixel_at", ok |-> r.ok, x |-> x, y |-> y,
                   out |-> IF r.ok THEN r.val ELSE black]
    /\ UNCHANGED <<width, height, pixels, written, nwrites, mat, proj>>

\* A call of to_ppm(); a second call in a row would return the same text.
ToPpm ==
    /\ last.ok /\ last.op # "to_ppm"
    /\ last' = [op |-> "to_ppm", ok |-> TRUE, out |-> to_ppm(Canvas)]
    /\ UNCHANGED <<width, height, pixels, written, nwrites, mat, proj>>

NextCanvas == WritePixel \/ PixelAt \/ ToPpm

SpecCanvas == InitCanvas /\ [][NextCanvas]_vars

\* Canvas::new(10, 2) of tests::ppm_long_lines_splitting: rows of 30 tokens.
LongRowW == 10
LongRowH == 2

\* The to_ppm specification: a canvas filled with one color, as the loop of
\* tests::ppm_long_lines_splitting fills it, then a few more writes.  The
\* canvas of that test is filled with a color of three-digit channels.
InitPpm ==
    /\ \E shape \in ((1..MaxPpmW) \X (1..MaxPpmH)) \cup {<<LongRowW, LongRowH>>},
          fill \in ColorInputs \cup {black} :
          /\ shape = <<LongRowW, LongRowH>> => fill = Color(4, 4, 4)
          /\ width = shape[1]
          /\ height = shape[2]
          /\ pixels = [y \in 0..(shape[2] - 1) |-> [x \in 0..(shape[1] - 1) |-> fill]]
          /\ written = <<>>
    /\ nwrites = 0
    /\ mat = NoMatrix
    /\ proj = NoProjectile
    /\ last = NoCall

\* A call of write_pixel(x, y, color) within the canvas; as in main, the
\* writes come before the serialization.
PpmWritePixel ==
    /\ nwrites < MaxPpmWrites
    /\ last.ok /\ last.op # "to_ppm"
    /\ \E x \in 0..(width - 1), y \in 0..(height - 1), color \in ColorInputs :
          LET r == write_pixel(Canvas, x, y, color) IN
          /\ r.ok
          /\ width' = r.val.width
          /\ height' = r.val.height
          /\ pixels' = r.val.pixels
    /\ nwrites' = nwrites + 1
    /\ last' = [op |-> "write_pixel", ok |-> TRUE]
    /\ UNCHANGED <<written, mat, proj>>

NextPpm == PpmWritePixel \/ ToPpm

SpecPpm == InitPpm /\ [][NextPpm]_vars

\* ------------------------------------------------------------------------
\* Vec: a function on 0..n-1
\* ------------------------------------------------------------------------
VecLen(v) == Cardinality(DOMAIN v)

\* vec![...] written as a TLA+ tuple
Vec(seq) == [i \in 0..(Len(seq) - 1) |-> seq[i + 1]]

Push(v, item) == [i \in 0..VecLen(v) |-> IF i < VecLen(v) THEN v[i] ELSE item]

\* &v[from..to]; the range must lie within the Vec, or the slicing panics.
SliceOk(v, from, to) == from <= to /\ to <= VecLen(v)
Slice(v, from, to) == [i \in 0..(to - from - 1) |-> v[from + i]]

\* left.iter().chain(right.iter()).cloned().collect()
Chain(u, v) ==
    [i \in 0..(VecLen(u) + VecLen(v) - 1) |->
        IF i < VecLen(u) THEN u[i] ELSE v[i - VecLen(u)]]

\* ------------------------------------------------------------------------
\* Tuple
\* ------------------------------------------------------------------------
Tuple(x, y, z, w) == [x |-> x, y |-> y, z |-> z, w |-> w]

to_vec(t) == Vec(<<t.x, t.y, t.z, t.w>>)

\* f64_equals on integer-valued f64 of small magnitude: two different
\* integers differ by 1 or more, far beyond the margin (epsilon 0.00001,
\* 16 ulps).
f64_equals(x, y) == x = y

tuple_equals(a, b) ==
    /\ f64_equals(a.x, b.x) /\ f64_equals(a.y, b.y)
    /\ f64_equals(a.z, b.z) /\ f64_equals(a.w, b.w)

\* ------------------------------------------------------------------------
\* Matrix
\* ------------------------------------------------------------------------
matrix_new(rows, cols) ==
    [rows |-> rows, cols |-> cols,
     values |-> [i \in 0..(rows - 1) |-> [j \in 0..(cols - 1) |-> 0]]]

identity ==
    [rows |-> 4, cols |-> 4,
     values |-> Vec(<< Vec(<<1, 0, 0, 0>>), Vec(<<0, 1, 0, 0>>),
                       Vec(<<0, 0, 1, 0>>), Vec(<<0, 0, 0, 1>>) >>)]

\* from_vec: rows = v.len(), cols = v[0].len(); v[0] of an empty Vec panics.
from_vec(v) ==
    IF VecLen(v) = 0 THEN Panic
    ELSE Ok([rows |-> VecLen(v), cols |-> VecLen(v[0]), values |-> v])

get_value(m, row, col) == m.values[row][col]

matrix_equals(a, b) ==
    IF a.rows # b.rows \/ a.cols # b.cols THEN FALSE
    ELSE \A r \in 0..(a.rows - 1) : \A c \in 0..(a.cols - 1) :
            f64_equals(get_value(a, r, c), get_value(b, r, c))

\* The sum of f[k] for k in from..(to - 1), added up in the order of the loop.
RECURSIVE SumLoop(_, _, _, _)
SumLoop(acc, f, from, to) ==
    IF from >= to THEN acc ELSE SumLoop(acc + f[from], f, from + 1, to)

\* v[i] of a Vec panics when i is out of range.
InRange(m, r, c) == r \in DOMAIN m.values /\ c \in DOMAIN m.values[r]

\* equals as a call that returns or panics: false on a shape mismatch,
\* before any cell is read; else the cells are read row by row and the first
\* pair that is not f64_equals ends the loops with false.  Reading a cell
\* that is not there panics.
equals_no_shape_check(a, b) ==
    LET cells == { <<r, c>> \in (0..(a.rows - 1)) \X (0..(a.cols - 1)) :
                      \/ ~InRange(a, r, c) \/ ~InRange(b, r, c)
                      \/ ~f64_equals(get_value(a, r, c), get_value(b, r, c)) }
    IN  IF cells = {} THEN Ok(TRUE)
        ELSE LET first == CHOOSE p \in cells : \A q \in cells :
                              p[1] < q[1] \/ (p[1] = q[1] /\ p[2] <= q[2])
             IN  IF ~InRange(a, first[1], first[2]) \/ ~InRange(b, first[1], first[2])
                 THEN Panic ELSE Ok(FALSE)
equals(a, b) ==
    IF a.rows # b.rows \/ a.cols # b.cols THEN Ok(FALSE)
    ELSE LET cells == { <<r, c>> \in (0..(a.rows - 1)) \X (0..(a.cols - 1)) :
                           \/ ~InRange(a, r, c) \/ ~InRange(b, r, c)
                           \/ ~f64_equals(get_value(a, r, c), get_value(b, r, c)) }
         IN  IF cells = {} THEN Ok(TRUE)
             ELSE LET first == CHOOSE p \in cells : \A q \in cells :
                                   p[1] < q[1] \/ (p[1] = q[1] /\ p[2] <= q[2])
                  IN  IF ~InRange(a, first[1], first[2]) \/ ~InRange(b, first[1], first[2])
                      THEN Panic ELSE Ok(FALSE)

\* multiply_matrix: the two asserts, then
\* result.values[i][j] += self.values[i][k] * other.values[k][j].
multiply_matrix_transposed(a, b) ==
    IF VecLen(a.values) = 0 \/ VecLen(b.values) = 0 THEN Panic
    ELSE IF a.cols # b.rows THEN Panic
    ELSE LET result == matrix_new(a.rows, b.cols) IN
         Ok([result EXCEPT !.values =
               [i \in 0..(a.rows - 1) |-> [j \in 0..(b.cols - 1) |->
                   SumLoop(result.values[i][j],
                           [k \in 0..(a.cols - 1) |-> a.values[i][k] * b.values[j % b.rows][k % b.cols]],
                           0, a.cols)]]])
multiply_matrix(a, b) ==
    IF VecLen(a.values) = 0 \/ VecLen(b.values) = 0 THEN Panic
    ELSE IF a.cols # b.rows THEN Panic
    ELSE LET result == matrix_new(a.rows, b.cols) IN
         Ok([result EXCEPT !.values =
               [i \in 0..(a.rows - 1) |-> [j \in 0..(b.cols - 1) |->
                   SumLoop(result.values[i][j],
                           [k \in 0..(a.cols - 1) |-> a.values[i][k] * b.values[k][j]],
                           0, a.cols)]]])

\* multiply_tuple: the two asserts, then result[i] += values[i][k] * other_vec[k]
\* into a [f64; 4]; result[i] with i >= 4 is an index out of bounds.
multiply_tuple_skip_w(m, other) ==
    IF VecLen(m.values) = 0 \/ m.cols # 4 THEN Panic
    ELSE IF \E i \in 0..(m.rows - 1) : \E k \in 0..(m.cols - 1) : i >= 4 THEN Panic
    ELSE LET other_vec == to_vec(other)
             result == [i \in 0..3 |->
                 IF i < m.rows
                 THEN SumLoop(0, [k \in 0..(m.cols - 1) |-> m.values[i][k] * other_vec[k]],
                              0, m.cols - 1)
                 ELSE 0]
         IN  Ok(Tuple(result[0], result[1], result[2], result[3]))
multiply_tuple(m, other) ==
    IF VecLen(m.values) = 0 \/ m.cols # 4 THEN Panic
    ELSE IF \E i \in 0..(m.rows - 1) : \E k \in 0..(m.cols - 1) : i >= 4 THEN Panic
    ELSE LET other_vec == to_vec(other)
             result == [i \in 0..3 |->
                 IF i < m.rows
                 THEN SumLoop(0, [k \in 0..(m.cols - 1) |-> m.values[i][k] * other_vec[k]],
                              0, m.cols)
                 ELSE 0]
         IN  Ok(Tuple(result[0], result[1], result[2], result[3]))

\* transpose: a zero matrix of self.rows x self.cols, then
\* transposed.values[j][i] = self.values[i][j] for every cell of self; an
\* index outside that zero matrix panics.
transpose(m) ==
    LET t == matrix_new(m.rows, m.cols) IN
    IF \E i \in DOMAIN m.values : \E j \in DOMAIN m.values[i] :
          ~(j \in DOMAIN t.values /\ i \in DOMAIN t.values[j])
    THEN Panic
    ELSE Ok([t EXCEPT !.values =
               [j \in DOMAIN t.values |-> [i \in DOMAIN t.values[j] |->
                   IF i \in DOMAIN m.values /\ j \in DOMAIN m.values[i]
                   THEN m.values[i][j] ELSE t.values[j][i]]]])

\* determinant: a * d - b * c for a 2 x 2 matrix, 0.0 for any other.
determinant(m) ==
    IF m.rows = 2 /\ m.cols = 2
    THEN m.values[0][0] * m.values[1][1] - m.values[0][1] * m.values[1][0]
    ELSE 0

\* submatrix: every row but `row`, each without its entry `col`, pushed in
\* order; then from_vec.
RECURSIVE submatrix_rows(_, _, _, _, _)
submatrix_rows(m, row, col, i, new_values) ==
    IF i >= m.rows THEN Ok(new_values)
    ELSE IF i = row THEN submatrix_rows(m, row, col, i + 1, new_values)
    ELSE IF ~SliceOk(m.values[i], 0, col) \/ ~SliceOk(m.values[i], col + 1, m.cols)
         THEN Panic
    ELSE LET left == Slice(m.values[i], 0, col)
             right == Slice(m.values[i], col + 1, m.cols)
             combined == Chain(left, right)
         IN  submatrix_rows(m, row, col, i + 1, Push(new_values, combined))

submatrix_keep_col(m, row, col) ==
    LET new_values == submatrix_rows(m, row, col - 1, 0, <<>>) IN
    IF new_values.ok THEN from_vec(new_values.val) ELSE Panic
submatrix(m, row, col) ==
    LET new_values == submatrix_rows(m, row, col, 0, <<>>) IN
    IF new_values.ok THEN from_vec(new_values.val) ELSE Panic

minor(m, row, col) ==
    LET submat == submatrix(m, row, col) IN
    IF submat.ok THEN Ok(determinant(submat.val)) ELSE Panic

\* cofactor: `row + col % 2 == 1` is row + (col % 2) == 1.
cofactor(m, row, col) ==
    LET mn == minor(m, row, col) IN
    IF ~mn.ok THEN Panic
    ELSE IF row + (col % 2) = 1 THEN Ok(-mn.val) ELSE Ok(mn.val)

\* ------------------------------------------------------------------------
\* The matrices and tuples the operations are applied to
\* ------------------------------------------------------------------------
Rows(seq) == [rows |-> Len(seq), cols |-> Len(seq[1]),
              values |-> Vec([k \in 1..Len(seq) |-> Vec(seq[k])])]

\* The integer 4 x 4 matrices of the tests of matrix.rs.
TestMatrices4 ==
    { Rows(<< <<-2, -8, 3, 5>>, <<-3, 1, 7, 3>>, <<1, 2, -9, 6>>, <<-6, 7, 7, -9>> >>),
      Rows(<< <<-6, 1, 1, 6>>, <<-8, 5, 8, 6>>, <<-1, 0, 8, 2>>, <<-7, 1, -1, 1>> >>),
      Rows(<< <<1, 2, 3, 4>>, <<2, 4, 4, 2>>, <<8, 6, 4, 1>>, <<0, 0, 0, 1>> >>),
      identity }

\* The 3 x 3 and 2 x 2 matrices of the tests of matrix.rs.
TestMatrices3 ==
    { Rows(<< <<1, 2, 6>>, <<-5, 8, -4>>, <<2, 6, 4>> >>),
      Rows(<< <<1, 5, 0>>, <<-3, 2, 7>>, <<0, 6, -3>> >>),
      Rows(<< <<3, 5, 0>>, <<2, -1, -7>>, <<6, -1, 5>> >>),
      Rows(<< <<1, 5>>, <<-3, 2>> >>) }

\* The rows x cols matrix cut from a 4 x 4 matrix at (r0, c0), the 4 x 4
\* matrix being continued periodically.
Window(base, r0, c0, rows, cols) ==
    [rows |-> rows, cols |-> cols,
     values |-> [i \in 0..(rows - 1) |-> [j \in 0..(cols - 1) |->
                    base.values[(r0 + i) % 4][(c0 + j) % 4]]]]

\* The matrices the operations are called on; Matrix::new(0, 4) is empty.
MatrixInputs ==
    TestMatrices3 \cup {matrix_new(0, 4)} \cup
    { Window(base, r0, c0, rows, cols) :
        base \in TestMatrices4, r0 \in 0..1, c0 \in 0..1,
        rows \in 1..MaxRows, cols \in 1..MaxCols }

\* The second operand of multiply_matrix and equals: identity, an empty
\* matrix, and the pieces of 1 and of 4 columns of the factor b of
\* tests::matrix_multiplication.
OtherInputs ==
    {identity, matrix_new(0, 4)} \cup
    { Window(Rows(<< <<-2, 1, 2, 3>>, <<3, 2, 1, -1>>, <<4, 3, 6, 5>>, <<1, 2, 7, 8>> >>),
             0, 0, rows, cols) :
        rows \in 1..MaxCols, cols \in {1, 4} }

\* The tuples of the tests of matrix.rs, and a vector.
TupleInputs == { Tuple(1, 2, 3, 1), Tuple(1, 2, 3, 4), Tuple(0, -1, 2, 0) }

\* ------------------------------------------------------------------------
\* The matrix operations as a state machine
\* ------------------------------------------------------------------------
InitMatrix ==
    /\ mat \in MatrixInputs
    /\ proj = NoProjectile
    /\ last = NoCall
    /\ width = 0
    /\ height = 0
    /\ pixels = <<>>
    /\ written = <<>>
    /\ nwrites = 0

Returned(op, r, args) ==
    [op |-> op, ok |-> r.ok, out |-> IF r.ok THEN r.val ELSE 0, args |-> args]

CanvasUnchanged == UNCHANGED <<width, height, pixels, written, nwrites, proj>>

Transpose ==
    /\ last' = Returned("transpose", transpose(mat), <<>>)
    /\ UNCHANGED mat /\ CanvasUnchanged

Determinant ==
    /\ last' = Returned("determinant", Ok(determinant(mat)), <<>>)
    /\ UNCHANGED mat /\ CanvasUnchanged

Submatrix ==
    /\ \E row \in 0..(mat.rows - 1), col \in 0..(mat.cols - 1) :
          last' = Returned("submatrix", submatrix(mat, row, col), <<row, col>>)
    /\ UNCHANGED mat /\ CanvasUnchanged

Minor ==
    /\ \E row \in 0..(mat.rows - 1), col \in 0..(mat.cols - 1) :
          last' = Returned("minor", minor(mat, row, col), <<row, col>>)
    /\ UNCHANGED mat /\ CanvasUnchanged

Cofactor ==
    /\ \E row \in 0..(mat.rows - 1), col \in 0..(mat.cols - 1) :
          last' = Returned("cofactor", cofactor(mat, row, col), <<row, col>>)
    /\ UNCHANGED mat /\ CanvasUnchanged

MultiplyTuple ==
    /\ \E t \in TupleInputs :
          last' = Returned("multiply_tuple", multiply_tuple(mat, t), <<t>>)
    /\ UNCHANGED mat /\ CanvasUnchanged

MultiplyMatrix ==
    /\ \E other \in OtherInputs :
          last' = Returned("multiply_matrix", multiply_matrix(mat, other), <<other>>)
    /\ UNCHANGED mat /\ CanvasUnchanged

\* The matrix with 1 added to its last cell, if it has one.
LastCellChanged(m) ==
    IF m.rows >= 1 /\ m.cols >= 1
    THEN [m EXCEPT !.values[m.rows - 1][m.cols - 1] = @ + 1]
    ELSE m

\* equals(other), other being a second operand, a copy of the matrix, or
\* the matrix with its last cell changed.
Equals ==
    /\ \E other \in OtherInputs \cup {mat, LastCellChanged(mat)} :
          last' = Returned("equals", equals(mat, other), <<other>>)
    /\ UNCHANGED mat /\ CanvasUnchanged

NextMatrix ==
    \/ Transpose \/ Determinant \/ Submatrix \/ Minor \/ Cofactor \/ MultiplyTuple
    \/ MultiplyMatrix \/ Equals

SpecMatrix == InitMatrix /\ [][NextMatrix]_vars

\* ------------------------------------------------------------------------
\* main: the projectile plotted on a canvas
\* ------------------------------------------------------------------------
\* The f64 coordinates of main are held in millionths: Fixed stands for 1.0.
\* Sums of such values are exact here; in f64 they carry an error below
\* 10^-9 over the whole run, and no coordinate of the run comes that close
\* to an integer.
Fixed == 1000000

new_point(x, y, z) == Tuple(x, y, z, Fixed)
new_vector(x, y, z) == Tuple(x, y, z, 0)

add(a, b) == Tuple(a.x + b.x, a.y + b.y, a.z + b.z, a.w + b.w)

\* `f64 as usize` of a coordinate: the fraction is dropped, then the cast
\* saturates.
f64_as_usize(v) == as_usize(IF v >= 0 THEN v \div Fixed ELSE 0 - ((0 - v) \div Fixed))

\* let position = new_point(0.0, 1.0, 0.0)
position == new_point(0, Fixed, 0)

\* let velocity = new_vector(1.0, 1.8, 0.0).normalize().multiply(11.25):
\* (1, 1.8, 0) / sqrt(4.24) * 11.25 = (5.463482975759611, 9.834269356367301, 0)
\* in f64, here to the nearest millionth.
velocity == new_vector(5463483, 9834269, 0)

\* gravity = new_vector(0.0, -0.1, 0.0), wind = new_vector(-0.01, 0.0, 0.0)
gravity == new_vector(0, 0 - Fixed \div 10, 0)
wind == new_vector(0 - Fixed \div 100, 0, 0)
Env == [gravity |-> gravity, wind |-> wind]

\* Canvas::new(900, 550)
MainW == 900
MainH == 550

red == Color(4, 0, 0)

tick(env, p) ==
    [position |-> add(p.position, p.velocity),
     velocity |-> add(add(p.velocity, env.gravity), env.wind)]

\* The condition of the `break` of the loop.
loop_break_no_y_sign(c, p) ==
    \/ p.position.x < 0
    \/ f64_as_usize(p.position.x) >= c.width
    \/ f64_as_usize(p.position.y) >= c.height
loop_break(c, p) ==
    \/ p.position.x < 0
    \/ f64_as_usize(p.position.x) >= c.width
    \/ p.position.y < 0
    \/ f64_as_usize(p.position.y) >= c.height

\* The test write_pixel makes before it stores the color.
bounds_panic(c, x, y) == x >= c.width \/ y >= c.height

\* The state of main when the loop is entered.  The 900 x 550 grid of
\* pixels is not built: the canvas is kept as the list `written` of the
\* <<x, y>> the loop has written, every other pixel being black.
InitMain ==
    /\ width = MainW
    /\ height = MainH
    /\ pixels = <<>>
    /\ written = <<>>
    /\ nwrites = 0
    /\ mat = NoMatrix
    /\ proj = [position |-> position, velocity |-> velocity]
    /\ last = NoCall

MainRunning == last.ok /\ last.op # "break"

\* One pass of the loop that does not break: write_pixel, then tick.
\* c.height - y as usize is a subtraction of usize: below 0 it panics in a
\* debug build and wraps to a value beyond any height in a release build,
\* where write_pixel then panics.  A panic ends the program.
LoopBody ==
    /\ MainRunning
    /\ ~loop_break(Canvas, proj)
    /\ LET x == f64_as_usize(proj.position.x)
           rows_up == f64_as_usize(proj.position.y)
           y == height - rows_up
           ok == rows_up <= height /\ ~bounds_panic(Canvas, x, y)
       IN  /\ last' = [op |-> "write_pixel", ok |-> ok, x |-> x, y |-> y,
                       color |-> red, at |-> proj.position]
           /\ written' = IF ok THEN Append(written, <<x, y>>) ELSE written
           /\ proj' = IF ok THEN tick(Env, proj) ELSE proj
    /\ nwrites' = nwrites + 1
    /\ UNCHANGED <<width, height, pixels, mat>>

\* The pass of the loop that breaks.
LoopBreak ==
    /\ MainRunning
    /\ loop_break(Canvas, proj)
    /\ last' = [op |-> "break", ok |-> TRUE]
    /\ UNCHANGED <<width, height, pixels, written, nwrites, mat, proj>>

NextMain == LoopBody \/ LoopBreak

SpecMain == InitMain /\ [][NextMain]_vars

\* ------------------------------------------------------------------------
\* Reading a PPM text back
\* ------------------------------------------------------------------------
Digits == {"0", "1", "2", "3", "4", "5", "6", "7", "8", "9"}

DigitValue(ch) == CHOOSE d \in 0..9 : DigitChar(d) = ch

\* The number a non-empty sequence of digits denotes.
RECURSIVE ParseNat(_)
ParseNat(ds) ==
    IF Len(ds) = 1 THEN DigitValue(ds[1])
    ELSE 10 * ParseNat(SubSeq(ds, 1, Len(ds) - 1)) + DigitValue(ds[Len(ds)])

Positions(text, chars) ==
    SelectSeq([i \in 1..Len(text) |-> i], LAMBDA i : text[i] \in chars)

\* The pieces of text that end at a character of seps (the separators left out).
Pieces(text, seps) ==
    LET ends == Positions(text, seps) IN
    [k \in 1..Len(ends) |->
        SubSeq(text, IF k = 1 THEN 1 ELSE ends[k - 1] + 1, ends[k] - 1)]

Lines(text) == Pieces(text, {"\n"})

IsNumber(tok) == Len(tok) > 0 /\ \A i \in 1..Len(tok) : tok[i] \in Digits

\* What follows the third line break.
Body(text) == SubSeq(text, Positions(text, {"\n"})[3] + 1, Len(text))

\* The channel values of the canvas, row by row, pixel by pixel, R then G then B.
ExpectedChannel(k) ==
    LET p == k \div 3
        px == pixels[p \div width][p % width]
    IN  ppm_str(px)[(k % 3) + 1]

Serialized == last.op = "to_ppm"

\* ------------------------------------------------------------------------
\* Claims about the canvas and its serialization
\* ------------------------------------------------------------------------

\* C3: every line of the text to_ppm() returns is at most 70 characters long,
\* the line break not counted; the text has no unterminated last line.
C3_LinesAtMost70 ==
    Serialized =>
        LET lines == Lines(last.out) IN
        /\ Len(last.out) > 0 /\ last.out[Len(last.out)] = "\n"
        /\ \A k \in 1..Len(lines) : Len(lines[k]) <= 70

\* Witness of C3: a serialized canvas one of whose rows was wrapped, with a
\* line of exactly 70 characters.
C3_Witness ==
    /\ Serialized
    /\ LET lines == Lines(last.out) IN
       /\ Len(lines) > 3 + height
       /\ \E k \in 1..Len(lines) : Len(lines[k]) = 70

\* C5: write_pixel(x, y, color) panics exactly when x >= width or y >= height.
C5_WritePanicsIffOutside ==
    last.op = "write_pixel" =>
        (~last.ok <=> (last.x >= width \/ last.y >= height))

\* Witness of C5: a write at (W, 0) on a W x H canvas has panicked.
C5_Witness ==
    /\ last.op = "write_pixel" /\ ~last.ok
    /\ width >= 1 /\ height >= 1
    /\ last.x = width /\ last.y = 0

\* C6: the text is the header P3 / width height / 255, then the canvas rows
\* in order, each row's tokens being its pixels' channels in order, with a
\* line break after the last token of every row.
C6_PpmLayout ==
    Serialized =>
        LET text == last.out
            hdr == Lines(text)
            body == Body(text)
            toks == Pieces(body, {" ", "\n"})
            seps == SelectSeq(body, LAMBDA ch : ch \in {" ", "\n"})
            size == Pieces(hdr[2] \o <<" ">>, {" "})
        IN  /\ Len(hdr) >= 3 + height
            /\ hdr[1] = <<"P", "3">>
            /\ Len(size) = 2 /\ IsNumber(size[1]) /\ IsNumber(size[2])
            /\ ParseNat(size[1]) = width /\ ParseNat(size[2]) = height
            /\ hdr[3] = <<"2", "5", "5">>
            /\ Len(body) > 0 /\ body[Len(body)] = "\n"
            /\ Len(toks) = 3 * width * height
            /\ \A k \in 1..Len(toks) :
                  /\ IsNumber(toks[k])
                  /\ ParseNat(toks[k]) = ExpectedChannel(k - 1)
            /\ \A y \in 1..height : seps[3 * width * y] = "\n"

\* Witness of C6: a serialized canvas of two rows or more whose rows differ
\* and whose first row fits one line.
C6_Witness ==
    /\ Serialized
    /\ height >= 2 /\ width >= 2
    /\ pixels[0] # pixels[1]
    /\ Len(Lines(last.out)) = 3 + height

\* C7: a channel v becomes round(v * 255) clamped to 0..255: negative
\* channels give 0, channels above 1.0 give 255, 0.5 gives 128.
NearestTo255Times(q, n) ==
    \* n is an integer nearest to q/4 * 255, the farther from zero of two
    /\ 4 * n - 255 * q <= 2 /\ 255 * q - 4 * n <= 2
    /\ (4 * n - 255 * q = 2) => q >= 0
    /\ (255 * q - 4 * n = 2) => q <= 0

ChannelAsSpecified(q, n) ==
    /\ n \in 0..255
    /\ q < 0 => n = 0
    /\ q > 4 => n = 255
    /\ q \in 0..4 => NearestTo255Times(q, n)
    /\ q = 2 => n = 128

C7_ChannelsRoundedAndClamped ==
    \A y \in DOMAIN pixels : \A x \in DOMAIN pixels[y] :
        LET px == pixels[y][x] IN
        /\ ChannelAsSpecified(px.r, ppm_str(px)[1])
        /\ ChannelAsSpecified(px.g, ppm_str(px)[2])
        /\ ChannelAsSpecified(px.b, ppm_str(px)[3])

\* Witness of C7: a serialized canvas with the pixel (1.5, 0.5, -0.5) and a
\* pixel with a channel of 0.25.
C7_Witness ==
    /\ Serialized
    /\ \E y \in DOMAIN pixels : \E x \in DOMAIN pixels[y] :
          pixels[y][x] = Color(6, 2, -2)
    /\ \E y \in DOMAIN pixels : \E x \in DOMAIN pixels[y] :
          pixels[y][x].r = 1

\* C8: pixel_at returns the color of the last successful write_pixel to the
\* same coordinates, black if there was none; writes change neither the
\* width nor the height, nor the shape of the grid.
C8_PixelsAreLastWrites ==
    /\ DOMAIN written = Coords(width, height)
    /\ DOMAIN pixels = 0..(height - 1)
    /\ \A y \in DOMAIN pixels : DOMAIN pixels[y] = 0..(width - 1)
    /\ \A p \in Coords(width, height) :
          pixel_at(Canvas, p[1], p[2]) =
              Ok(IF written[p] = <<>> THEN black ELSE written[p][1])
    /\ (last.op = "pixel_at") =>
          /\ last.ok
          /\ last.out = IF written[<<last.x, last.y>>] = <<>> THEN black
                        ELSE written[<<last.x, last.y>>][1]

\* Witness of C8: pixel_at has returned a color other than black, written by
\* the second of two writes, while another pixel of the same row is black.
C8_Witness ==
    /\ last.op = "pixel_at" /\ last.out # black
    /\ nwrites = 2
    /\ \E x \in 0..(width - 1) : x # last.x /\ written[<<x, last.y>>] = <<>>

\* The line wrapping as the specification words it: a token is appended,
\* after a space unless the line is empty, if the line stays within 70
\* characters; otherwise the line is flushed and the token starts a new one.
\* The lines of one canvas row, from token k on, line being the line so far.
AppendToken(line, tok) == IF Len(line) = 0 THEN tok ELSE line \o <<" ">> \o tok

RECURSIVE Wrapped(_, _, _)
Wrapped(toks, k, line) ==
    IF k > Len(toks) THEN <<line>>
    ELSE LET longer == AppendToken(line, toks[k]) IN
         IF Len(longer) <= 70 THEN Wrapped(toks, k + 1, longer)
         ELSE <<line>> \o Wrapped(toks, k + 1, toks[k])

\* The tokens of canvas row y.
RowTokens(y) ==
    [k \in 1..(3 * width) |-> to_string(ExpectedChannel(3 * width * y + k - 1))]

RECURSIVE WrappedRows(_)
WrappedRows(y) ==
    IF y >= height THEN <<>>
    ELSE Wrapped(RowTokens(y), 1, <<>>) \o WrappedRows(y + 1)

\* Tokens from..to of toks on one line, single spaces between them.
RECURSIVE Joined(_, _, _)
Joined(toks, from, to) ==
    IF from > to THEN <<>>
    ELSE AppendToken(Joined(toks, from, to - 1), toks[to])

ThreeDigitRow(y) ==
    /\ 3 * width = 30
    /\ \A k \in 1..30 : Len(RowTokens(y)[k]) = 3

\* C13: the body of the text to_ppm() returns is, line for line, what the
\* greedy wrapping of the specification gives for the rows of the canvas,
\* and a row of 30 three-digit tokens is written as a line of its first 17
\* tokens and a line of the other 13.
C13_GreedyWrapping ==
    Serialized =>
        LET lines == Lines(last.out) IN
        /\ SubSeq(lines, 4, Len(lines)) = WrappedRows(0)
        /\ (\A y \in 0..(height - 1) : ThreeDigitRow(y)) =>
              \A y \in 0..(height - 1) :
                  /\ lines[3 + 2 * y + 1] = Joined(RowTokens(y), 1, 17)
                  /\ lines[3 + 2 * y + 2] = Joined(RowTokens(y), 18, 30)

\* Witness of C13: a serialized canvas whose first row has 30 three-digit
\* tokens, written as a line of 67 characters and a line of 51.
C13_Witness ==
    /\ Serialized
    /\ ThreeDigitRow(0)
    /\ LET lines == Lines(last.out) IN
       /\ Len(lines[4]) = 67
       /\ Len(lines[5]) = 51

\* ------------------------------------------------------------------------
\* Claims about the matrix operations
\* ------------------------------------------------------------------------

\* m with one row and one column left out, the others in their order.
Without(m, row, col) ==
    [rows |-> m.rows - 1, cols |-> m.cols - 1,
     values |-> [i \in 0..(m.rows - 2) |-> [j \in 0..(m.cols - 2) |->
                    m.values[IF i < row THEN i ELSE i + 1][IF j < col THEN j ELSE j + 1]]]]

\* The Laplace expansion along the first row, down to 2 x 2.
RECURSIVE Laplace(_)
Laplace(m) ==
    IF m.rows = 2
    THEN m.values[0][0] * m.values[1][1] - m.values[0][1] * m.values[1][0]
    ELSE SumLoop(0, [j \in 0..(m.cols - 1) |->
                        m.values[0][j] * (IF j % 2 = 0 THEN 1 ELSE -1)
                            * Laplace(Without(m, 0, j))],
                 0, m.cols)

\* C1: the determinant of a square matrix larger than 2 x 2 is its Laplace
\* expansion along the first row.
C1_DeterminantIsLaplace ==
    (last.op = "determinant" /\ mat.rows = mat.cols /\ mat.rows > 2) =>
        last.out = Laplace(mat)

\* C2: cofactor(row, col) is minor(row, col) when row + col is even and
\* -minor(row, col) when row + col is odd.
C2_CofactorSign ==
    (last.op = "cofactor" /\ last.ok) =>
        LET row == last.args[1]
            col == last.args[2]
            mn == minor(mat, row, col).val
        IN  last.out = IF (row + col) % 2 = 0 THEN mn ELSE -mn

\* C4: transpose() of an R x C matrix returns the C x R matrix T with
\* T[j][i] = M[i][j], and transposing T gives M again.
C4_Transpose ==
    last.op = "transpose" =>
        /\ last.ok
        /\ last.out.rows = mat.cols /\ last.out.cols = mat.rows
        /\ \A i \in 0..(mat.rows - 1) : \A j \in 0..(mat.cols - 1) :
              last.out.values[j][i] = mat.values[i][j]
        /\ transpose(last.out).ok
        /\ matrix_equals(transpose(last.out).val, mat)

RowDot(m, i, t) ==
    m.values[i][0] * t.x + m.values[i][1] * t.y
        + m.values[i][2] * t.z + m.values[i][3] * t.w

RowDots(m, t) ==
    Tuple(IF m.rows > 0 THEN RowDot(m, 0, t) ELSE 0,
          IF m.rows > 1 THEN RowDot(m, 1, t) ELSE 0,
          IF m.rows > 2 THEN RowDot(m, 2, t) ELSE 0,
          IF m.rows > 3 THEN RowDot(m, 3, t) ELSE 0)

\* C9 as claimed: multiply_tuple on a matrix of 4 columns and any number of
\* rows, more than 4 included, does not fail and returns the dot products
\* of the first min(R, 4) rows, 0 in the other components.
C9_AnyRowCount ==
    (last.op = "multiply_tuple" /\ mat.rows >= 1 /\ mat.cols = 4) =>
        /\ last.ok
        /\ last.out = RowDots(mat, last.args[1])

\* C9 amended: multiply_tuple on a matrix of 4 columns and R <= 4 rows does
\* not fail and returns the dot products of the R rows, 0 in the other
\* components; on more than 4 rows it panics; identity.multiply_tuple(t)
\* equals t.
C9_UpTo4Rows ==
    (last.op = "multiply_tuple" /\ mat.rows >= 1 /\ mat.cols = 4) =>
        /\ last.ok <=> mat.rows <= 4
        /\ last.ok => last.out = RowDots(mat, last.args[1])
        /\ mat = identity => (last.ok /\ tuple_equals(last.out, last.args[1]))

\* Witness of C9: multiply_tuple has returned from a 3 x 4 matrix with
\* three components other than 0.
C9_Witness ==
    /\ last.op = "multiply_tuple" /\ last.ok
    /\ mat.rows = 3 /\ mat.cols = 4
    /\ last.out.x # 0 /\ last.out.y # 0 /\ last.out.z # 0 /\ last.out.w = 0

\* C10 as claimed: submatrix(row, col) of any R x C matrix, R = 1 included,
\* returns the (R-1) x (C-1) matrix without that row and that column.
C10_AnyShape ==
    last.op = "submatrix" =>
        /\ last.ok
        /\ last.out = Without(mat, last.args[1], last.args[2])

\* C10 amended: submatrix(row, col) of an R x C matrix with R >= 2 returns
\* the (R-1) x (C-1) matrix without that row and that column, the other
\* entries in their order; on a matrix of one row it panics.  The matrix
\* it is called on stays as it is.
SubmatrixReturned ==
    last.op = "submatrix" =>
        /\ last.ok <=> mat.rows >= 2
        /\ last.ok =>
              /\ last.out.rows = mat.rows - 1 /\ last.out.cols = mat.cols - 1
              /\ last.out = Without(mat, last.args[1], last.args[2])

C10_TwoRowsOrMore ==
    /\ []SubmatrixReturned
    /\ [][last'.op = "submatrix" => mat' = mat]_vars

\* Witness of C10: submatrix(1, 1) of a 3 x 3 matrix has returned a 2 x 2
\* matrix.
C10_Witness ==
    /\ last.op = "submatrix" /\ last.ok
    /\ mat.rows = 3 /\ mat.cols = 3
    /\ last.args = <<1, 1>>
    /\ last.out.rows = 2 /\ last.out.cols = 2

\* ------------------------------------------------------------------------
\* Claims about multiply_matrix and equals
\* ------------------------------------------------------------------------

\* The sum over k of A[i][k] * B[k][j].
RECURSIVE SumOfProducts(_, _, _, _, _)
SumOfProducts(a, b, i, j, k) ==
    IF k < 0 THEN 0
    ELSE a.values[i][k] * b.values[k][j] + SumOfProducts(a, b, i, j, k - 1)

MultiplyMatrixReturned ==
    last.op = "multiply_matrix" =>
        LET a == mat
            b == last.args[1]
        IN  /\ ~last.ok <=> (a.rows = 0 \/ b.rows = 0 \/ a.cols # b.rows)
            /\ last.ok =>
                  /\ last.out.rows = a.rows /\ last.out.cols = b.cols
                  /\ DOMAIN last.out.values = 0..(a.rows - 1)
                  /\ \A i \in 0..(a.rows - 1) :
                        /\ DOMAIN last.out.values[i] = 0..(b.cols - 1)
                        /\ \A j \in 0..(b.cols - 1) :
                              last.out.values[i][j] = SumOfProducts(a, b, i, j, a.cols - 1)
            /\ (last.ok /\ a.rows = 4 /\ b = identity) =>
                  equals(last.out, a) = Ok(TRUE)

\* C11: multiply_matrix(A, B) panics when A or B is empty or A.cols differs
\* from B.rows; otherwise it returns the A.rows x B.cols matrix of the sums
\* over k of A[i][k] * B[k][j], and M times identity equals M for a 4 x 4 M;
\* the matrix it is called on stays as it is.
C11_MultiplyMatrix ==
    /\ []MultiplyMatrixReturned
    /\ [][last'.op = "multiply_matrix" => mat' = mat]_vars

\* Witness of C11: a 3 x 2 matrix times a 2 x 4 matrix has returned a
\* 3 x 4 matrix with an entry other than 0.
C11_Witness ==
    /\ last.op = "multiply_matrix" /\ last.ok
    /\ mat.rows = 3 /\ mat.cols = 2
    /\ last.args[1].rows = 2 /\ last.args[1].cols = 4
    /\ last.out.rows = 3 /\ last.out.cols = 4
    /\ last.out.values[2][3] # 0

\* C12: equals(other) never panics; it returns false when the row counts or
\* the column counts differ, and for equal shapes true exactly when every
\* pair of corresponding cells is f64_equals.
C12_EqualsNeverFails ==
    last.op = "equals" =>
        LET a == mat
            b == last.args[1]
        IN  /\ last.ok
            /\ (a.rows # b.rows \/ a.cols # b.cols) => last.out = FALSE
            /\ (a.rows = b.rows /\ a.cols = b.cols) =>
                  (last.out <=>
                      \A r \in 0..(a.rows - 1) : \A c \in 0..(a.cols - 1) :
                          f64_equals(a.values[r][c], b.values[r][c]))

\* Witness of C12: equals has returned false for a matrix of 4 columns and
\* another of the same 4 columns and fewer rows.
C12_Witness ==
    /\ last.op = "equals" /\ last.ok /\ last.out = FALSE
    /\ mat.cols = 4 /\ last.args[1].cols = 4
    /\ last.args[1].rows >= 1 /\ last.args[1].rows < mat.rows

\* ------------------------------------------------------------------------
\* Claim about the loop of main
\* ------------------------------------------------------------------------

\* floor of a coordinate held in millionths
Floor(v) == v \div Fixed

PassesGuard(pos) ==
    /\ pos.x >= 0 /\ Floor(pos.x) < width
    /\ pos.y >= 0 /\ Floor(pos.y) < height

\* C14: every position the projectile has when it passes the guard of the
\* loop is plotted at (floor(x), height - floor(y)), and these satisfy
\* floor(x) < width and height - floor(y) < height: no write_pixel of the
\* loop panics.
C14_LoopWritesInBounds ==
    /\ (MainRunning /\ PassesGuard(proj.position)) =>
          /\ Floor(proj.position.x) < width
          /\ height - Floor(proj.position.y) < height
    /\ last.op = "write_pixel" =>
          /\ PassesGuard(last.at)
          /\ last.x = Floor(last.at.x)
          /\ last.y = height - Floor(last.at.y)
          /\ last.x < width /\ last.y < height
          /\ last.ok

\* Witness of C14: the loop has come to its break after 198 writes, the
\* first of them on the last row of the canvas, for the start at y = 1.0.
C14_Witness ==
    /\ last.op = "break"
    /\ Len(written) = 198
    /\ written[1] = <<0, height - 1>>
    /\ written[198] = <<883, height - 7>>

====
